---- MODULE Spec2Model ----
(***************************************************************************)
(* Model of the CBU gold prices API (src/main.py): the file-backed cache   *)
(* (load_cache, save_cache, clear_cache), the module-level cache_lock and  *)
(* the request handlers /gold and /cache/status running concurrently in    *)
(* the server's thread pool.                                               *)
(*                                                                         *)
(* Time is counted in hours.  A datetime is a record [t, tz]; its ISO      *)
(* string is a record [fmt, t, off] (isoformat / fromisoformat convert     *)
(* between the two and fromisoformat raises on anything else).             *)
(***************************************************************************)
EXTENDS Integers, FiniteSets, Sequences, TLC

\* ---------------------------------------------------------------- bounds
NumReq == 2          \* worker threads serving requests at the same time
MaxRequests == 3     \* /gold and /cache/status requests accepted in one behaviour
MaxTime == 24        \* the clock stops advancing here (hours)
MaxRows == 3         \* rows of a table handed to parse_table
MaxLen == 3          \* characters of a price text made of any characters

\* ------------------------------------------------------ program constants
CACHE_TTL == 24      \* timedelta(hours=24)
UZB_TZ == 5          \* timezone(timedelta(hours=5))

ClockStep == CACHE_TTL \div 2

Reqs == 1..NumReq

\* ------------------------------------------------------------- datetimes
\* tzinfo: <<offset>> for an aware datetime, << >> for a naive one
Naive == << >>
Now(t) == [t |-> t, tz |-> <<UZB_TZ>>]             \* datetime.now(UZB_TZ)

NullStr == [fmt |-> "null", t |-> 0, off |-> Naive]    \* JSON null / key absent
BadStr == [fmt |-> "bad", t |-> 0, off |-> Naive]      \* a string that is no ISO date
IsoStr(t, off) == [fmt |-> "iso", t |-> t, off |-> off]

\* datetime.isoformat(): the instant and the UTC offset, when there is one
isoformat(dt) == IsoStr(dt.t, dt.tz)

\* datetime.fromisoformat(): raises for None and for a malformed string
fromisoformat_raises(s) == s.fmt # "iso"
fromisoformat(s) == [t |-> s.t, tz |-> s.off]

\* aware < naive raises TypeError
compare_raises(a, b) == (a.tz = Naive) # (b.tz = Naive)

\* ------------------------------------------------------------- snapshots
\* page is the number of the source page the snapshot was parsed from and
\* stands for its parsed content (the price rows; source and last_updated are
\* left out); complete says whether every snapshot field is present.
NoSnap == [complete |-> FALSE, retrieved_at |-> NullStr, page |-> 0]
Snapshot(page, dt) == [complete |-> TRUE, retrieved_at |-> isoformat(dt), page |-> page]

\* ------------------------------------------------------------ cache file
AbsentFile == [exists |-> FALSE, parsable |-> FALSE, snap |-> NoSnap, expires_at |-> NullStr]
GarbageFile == [exists |-> TRUE, parsable |-> FALSE, snap |-> NoSnap, expires_at |-> NullStr]
JsonFile(snap, exp) == [exists |-> TRUE, parsable |-> TRUE, snap |-> snap, expires_at |-> exp]

\* Optional[dict]
None == [some |-> FALSE, snap |-> NoSnap, expires_at |-> NullStr]
Some(snap, exp) == [some |-> TRUE, snap |-> snap, expires_at |-> exp]

\* load_cache without the expiry test of line 90
load_cache_noexpiry(f, t) ==
    IF ~f.exists THEN None
    ELSE IF ~f.parsable THEN None
    ELSE IF fromisoformat_raises(f.expires_at) THEN None
    ELSE IF compare_raises(Now(t), fromisoformat(f.expires_at)) THEN None
    ELSE Some(f.snap, f.expires_at)

\* load_cache with `<` turned into `<=`
load_cache_le(f, t) ==
    IF ~f.exists THEN None
    ELSE IF ~f.parsable THEN None
    ELSE IF fromisoformat_raises(f.expires_at) THEN None
    ELSE IF compare_raises(Now(t), fromisoformat(f.expires_at)) THEN None
    ELSE IF t <= fromisoformat(f.expires_at).t THEN Some(f.snap, f.expires_at)
    ELSE None

\* load_cache(): None unless the file parses and now < expires_at
load_cache(f, t) ==
    IF ~f.exists THEN None
    ELSE IF ~f.parsable THEN None
    ELSE IF fromisoformat_raises(f.expires_at) THEN None
    ELSE IF compare_raises(Now(t), fromisoformat(f.expires_at)) THEN None
    ELSE IF t < fromisoformat(f.expires_at).t THEN Some(f.snap, f.expires_at)
    ELSE None

\* save_cache that writes the file with expires_at = now
save_cache_nottl(result, t) ==
    [file |-> JsonFile(result, isoformat(Now(t))), expires_at |-> Now(t + CACHE_TTL)]

\* save_cache(): full overwrite with result + expires_at; returns expires_at
save_cache(result, t) ==
    LET expires_at == Now(t + CACHE_TTL)
    IN  [file |-> JsonFile(result, isoformat(expires_at)), expires_at |-> expires_at]

\* clear_cache that removes only a file it can parse
clear_cache_parsable(f) == IF f.exists /\ f.parsable THEN AbsentFile ELSE f

\* clear_cache that leaves the file where it is
clear_cache_keep(f) == f

\* clear_cache(): remove the file when it exists
clear_cache(f) == IF f.exists THEN AbsentFile ELSE f

\* ------------------------------------------------------------- the parser
\* A text is a sequence of characters, each written as a string ("nbsp" is
\* U+00A0, "okina" is U+02BB).  A <tr> is the sequence of the texts of its
\* <td> cells; a page is [table |-> whether the page holds the table,
\* trs |-> the rows of its tbody].
Digits == {"0", "1", "2", "3", "4", "5", "6", "7", "8", "9"}
Whitespace == {" ", "nbsp"}

DigitVal(c) ==
    CASE c = "0" -> 0 [] c = "1" -> 1 [] c = "2" -> 2 [] c = "3" -> 3
      [] c = "4" -> 4 [] c = "5" -> 5 [] c = "6" -> 6 [] c = "7" -> 7
      [] c = "8" -> 8 [] c = "9" -> 9

\* int() of a string of digits, read from the left
int(ds) ==
    LET val[i \in 0 .. Len(ds)] ==
            IF i = 0 THEN 0 ELSE val[i - 1] * 10 + DigitVal(ds[i])
    IN  val[Len(ds)]

\* re.findall(r"\d+", s): the maximal runs of digits, from the left; scan[i]
\* is the state of the scan behind s[i]: the runs that have ended and the
\* run under way
findall_digits(s) ==
    LET scan[i \in 0 .. Len(s)] ==
            IF i = 0 THEN [runs |-> << >>, cur |-> << >>]
            ELSE IF s[i] \in Digits
                 THEN [runs |-> scan[i - 1].runs, cur |-> Append(scan[i - 1].cur, s[i])]
            ELSE IF scan[i - 1].cur = << >> THEN scan[i - 1]
            ELSE [runs |-> Append(scan[i - 1].runs, scan[i - 1].cur), cur |-> << >>]
        end == scan[Len(s)]
    IN  IF end.cur = << >> THEN end.runs ELSE Append(end.runs, end.cur)

\* "".join(digits)
join(runs) ==
    LET cat[i \in 0 .. Len(runs)] ==
            IF i = 0 THEN << >> ELSE cat[i - 1] \o runs[i]
    IN  cat[Len(runs)]

\* s.replace(" ", " ")
replace_nbsp(s) == [i \in 1 .. Len(s) |-> IF s[i] = "nbsp" THEN " " ELSE s[i]]

\* normalize_digits with the first run of digits alone
normalize_digits_first(s) ==
    LET digits == findall_digits(replace_nbsp(s))
    IN  IF digits # << >> THEN int(Head(digits)) ELSE 0

\* normalize_digits() (lines 22-24)
normalize_digits(s) ==
    LET digits == findall_digits(replace_nbsp(s))
    IN  IF digits # << >> THEN int(join(digits)) ELSE 0

\* str.strip(): the whitespace at the left end taken off, then the
\* whitespace at the right end
strip(s) ==
    LET lead[i \in 0 .. Len(s)] ==
            IF i = 0 THEN 0
            ELSE IF lead[i - 1] = i - 1 /\ s[i] \in Whitespace THEN i ELSE lead[i - 1]
        l == SubSeq(s, lead[Len(s)] + 1, Len(s))
        trail[i \in 0 .. Len(l)] ==
            IF i = 0 THEN 0
            ELSE IF trail[i - 1] = i - 1 /\ l[Len(l) + 1 - i] \in Whitespace
                 THEN i ELSE trail[i - 1]
    IN  SubSeq(l, 1, Len(l) - trail[Len(l)])

\* td.get_text(" ", strip=True) of a cell that holds one string
get_text(td) == strip(td)

\* str.lower() as re.I applies it to the letters the pages use in capitals
lower(c) ==
    CASE c = "N" -> "n" [] c = "O" -> "o" [] c = "S" -> "s" [] OTHER -> c

\* the alternatives of the pattern of line 47
HeaderWords ==
    {<<"o", "g", "'", "i", "r">>, <<"o", "g", "okina", "i", "r">>,
     <<"o", "g", "i", "r">>, <<"s", "o", "t", "i", "s", "h">>,
     <<"n", "a", "r", "x">>}

\* re.search(r"og'ir|...|narx", text, flags=re.I) finds a match
search_header(text) ==
    \E w \in HeaderWords :
        \E i \in 1 .. Len(text) - Len(w) + 1 :
            \A j \in 1 .. Len(w) : lower(text[i + j - 1]) = w[j]

\* the body of the loop of lines 41-60 for one <tr>: the entries it appends
row_entries(tds) ==
    IF tds = << >> THEN << >>
    ELSE LET first_text == get_text(tds[1])
             wg_match == findall_digits(first_text)
         IN  IF search_header(first_text) THEN << >>
             ELSE IF wg_match = << >> THEN << >>
             ELSE LET price_text == IF Len(tds) > 1 THEN get_text(tds[2]) ELSE << >>
                  IN  <<[weight_g |-> int(Head(wg_match)),
                         price_uzs |-> normalize_digits(price_text),
                         price_str |-> price_text]>>

\* the loop of lines 41-60 over the rows of the table: rows[i] is the list
\* `rows` after the i-th <tr>
scan_rows(trs) ==
    LET rows[i \in 0 .. Len(trs)] ==
            IF i = 0 THEN << >> ELSE rows[i - 1] \o row_entries(trs[i])
    IN  rows[Len(trs)]

\* entry x put into the sorted list s behind the entries that do not weigh more
insert(s, x) ==
    LET k == Cardinality({i \in 1 .. Len(s) : s[i].weight_g <= x.weight_g})
    IN  SubSeq(s, 1, k) \o <<x>> \o SubSeq(s, k + 1, Len(s))

\* sorted(rows, key=lambda r: r["weight_g"]) (line 62): a stable sort, here
\* by inserting the entries one after the other
sorted(rows) ==
    LET done[i \in 0 .. Len(rows)] ==
            IF i = 0 THEN << >> ELSE insert(done[i - 1], rows[i])
    IN  done[Len(rows)]

\* a page without the gold table
NoTable == [table |-> FALSE, trs |-> << >>]
\* a page whose table has rows but no price row: a <tr> without <td>, the
\* header row, and a row whose first cell holds no digit
HeaderOnlyPage ==
    [table |-> TRUE,
     trs |-> << << >>,
                <<<<"N", "a", "r", "x">>, <<"1", "0">>>>,
                <<<<"g">>, <<"1", "0">>>> >>]
\* a page with price rows, the heavier bar first
PricePage ==
    [table |-> TRUE,
     trs |-> << <<<<"N", "a", "r", "x">>>>,
                <<<<"1", "0", "g">>, <<"2", "nbsp", "5">>>>,
                <<<<"5", "g">>, <<"1", " ", "2">>>> >>]
\* the pages the source serves with the table, by number; 0 is the number of
\* a page without it
SourcePages == <<HeaderOnlyPage, PricePage>>
Pages == DOMAIN SourcePages
Html(p) == IF p \in Pages THEN SourcePages[p] ELSE NoTable

\* parse_table() (lines 26-63): rows is None (found is FALSE) when no table
\* is located, otherwise the entries of the rows, sorted; the date search of
\* lines 32-38 is left out
parse_table(text) ==
    IF ~text.table THEN [found |-> FALSE, rows |-> << >>]
    ELSE [found |-> TRUE, rows |-> sorted(scan_rows(text.trs))]

\* what parse_table(resp.text) returns for each page, worked out once
Parsed == [p \in {0} \cup Pages |-> parse_table(Html(p))]

\* ------------------------------------------------------------- the source
\* What requests.get meets: a timeout, a connection error, or a response
\* with a status code and a page.
FetchOutcomes ==
    {[net |-> "timeout", status |-> 0, page |-> 0],
     [net |-> "connection", status |-> 0, page |-> 0],
     [net |-> "response", status |-> 503, page |-> 0],
     [net |-> "response", status |-> 200, page |-> 0]}
    \cup {[net |-> "response", status |-> 200, page |-> p] : p \in Pages}

\* exceptions: http says isinstance(e, HTTPException)
NoExc == [raised |-> FALSE, http |-> FALSE, code |-> 0]
RequestException == [raised |-> TRUE, http |-> FALSE, code |-> 0]
HTTPException(code) == [raised |-> TRUE, http |-> TRUE, code |-> code]

\* fetch_and_parse with `if not rows` for the test of line 72
fetch_and_parse_notrows(o, t) ==
    IF o.net # "response" THEN [exc |-> RequestException, result |-> NoSnap]
    ELSE IF o.status # 200 THEN [exc |-> HTTPException(502), result |-> NoSnap]
    ELSE IF ~Parsed[o.page].found \/ Parsed[o.page].rows = << >>
         THEN [exc |-> HTTPException(500), result |-> NoSnap]
    ELSE [exc |-> NoExc, result |-> Snapshot(o.page, Now(t))]

\* fetch_and_parse(): the snapshot, or the exception it raises
fetch_and_parse(o, t) ==
    IF o.net # "response" THEN [exc |-> RequestException, result |-> NoSnap]
    ELSE IF o.status # 200 THEN [exc |-> HTTPException(502), result |-> NoSnap]
    ELSE IF ~Parsed[o.page].found
         THEN [exc |-> HTTPException(500), result |-> NoSnap]
    ELSE [exc |-> NoExc, result |-> Snapshot(o.page, Now(t))]

\* the "prices" of a snapshot
prices(snap) == Parsed[snap.page].rows

\* ------------------------------------------------------------- responses
NoResp == [http |-> 0, status |-> "none", snap |-> NoSnap, expires_at |-> NullStr,
           warning |-> FALSE]
JSONResponse(status, snap, exp, warning) ==
    [http |-> 200, status |-> status, snap |-> snap, expires_at |-> exp,
     warning |-> warning]
ErrorResponse(code) ==
    [http |-> code, status |-> "error", snap |-> NoSnap, expires_at |-> NullStr,
     warning |-> FALSE]

\* ----------------------------------------------------------------- state
VARIABLES
    now,        \* the wall clock, in hours
    file,       \* the content of cache.json
    lock,       \* cache_lock: the request holding it, 0 when free
    pc,         \* where each request thread is
    handler,    \* "gold", "status", "root", "health" or "none"
    force,      \* the force query parameter
    result,     \* fetch_and_parse's return value
    exc,        \* the exception caught at line 120
    resp,       \* the response sent
    started,    \* requests accepted so far
    fetched,    \* history: the request called requests.get
    cleared,    \* history: what the request's clear_cache found: no file
                \* ("absent") or a file, which it removed ("removed"); from the
                \* load_cache that follows on, only that it ran ("cleared")
    saved,      \* history: the request called save_cache
    lastStored, \* history: the last save_cache, and whether the file is as it left it;
                \* of an entry that was removed only expires_at is remembered
    seen,       \* history: a non-force /gold request that arrived after the save
                \* of lastStored and has not gone on to fetch
    overlap,    \* history: another request called save_cache after the
                \* request's load_cache of line 114 and before its fallback
    html,       \* the page handed to parse_table when it is run on its own
    parsed      \* what that parse_table returned

vars == <<now, file, lock, pc, handler, force, result, exc, resp, started,
          fetched, cleared, saved, lastStored, seen, overlap, html, parsed>>

NoStored == [valid |-> FALSE, intact |-> FALSE, at |-> 0, snap |-> NoSnap,
             expires_at |-> NullStr]
Stored(t, snap, exp) == [valid |-> TRUE, intact |-> TRUE, at |-> t, snap |-> snap,
                         expires_at |-> exp]

\* cache.json as an earlier run of the server, or anything else, left it
InitFiles ==
    {AbsentFile, GarbageFile,
     JsonFile(Snapshot(2, Now(0)), isoformat(Now(ClockStep))),
     JsonFile(Snapshot(2, Now(0)), isoformat(Now(0))),
     JsonFile(Snapshot(2, Now(0)), IsoStr(ClockStep, Naive)),
     JsonFile(Snapshot(2, Now(0)), NullStr),
     JsonFile(Snapshot(2, Now(0)), BadStr),
     JsonFile(NoSnap, isoformat(Now(ClockStep)))}

InitServer ==
    /\ now = 0
    /\ file \in InitFiles
    /\ lock = 0
    /\ pc = [r \in Reqs |-> "idle"]
    /\ handler = [r \in Reqs |-> "none"]
    /\ force = [r \in Reqs |-> FALSE]
    /\ result = [r \in Reqs |-> NoSnap]
    /\ exc = [r \in Reqs |-> NoExc]
    /\ resp = [r \in Reqs |-> NoResp]
    /\ started = 0
    /\ fetched = [r \in Reqs |-> FALSE]
    /\ cleared = [r \in Reqs |-> "no"]
    /\ saved = [r \in Reqs |-> FALSE]
    /\ lastStored = NoStored
    /\ seen = [r \in Reqs |-> FALSE]
    /\ overlap = [r \in Reqs |-> FALSE]

\* parse_table has not been run
NotParsed == [ran |-> FALSE, found |-> FALSE, rows |-> << >>]

Init ==
    /\ InitServer
    /\ html = NoTable
    /\ parsed = NotParsed

\* Sending a response touches nothing the other threads read, so it is taken
\* as the step that follows the handler's return: nothing else moves meanwhile.
Answering == \E r \in Reqs : pc[r] = "done"

\* Tick with a clock that is set back
Tick_back ==
    /\ ~Answering
    /\ \E t \in {now - ClockStep, now + ClockStep} :
         /\ t \in 0 .. MaxTime
         /\ now' = t
    /\ UNCHANGED <<overlap, html, parsed>>
    /\ UNCHANGED <<file, lock, pc, handler, force, result, exc, resp, started,
                   fetched, cleared, saved, lastStored, seen>>

\* time passes
Tick ==
    /\ ~Answering
    /\ now + ClockStep <= MaxTime
    /\ now' = now + ClockStep
    /\ UNCHANGED <<overlap, html, parsed>>
    /\ UNCHANGED <<file, lock, pc, handler, force, result, exc, resp, started,
                   fetched, cleared, saved, lastStored, seen>>

\* the pool hands an arriving request to its first free thread
FirstFree(r) == pc[r] = "idle" /\ \A q \in Reqs : q < r => pc[q] # "idle"

\* GET /gold?force=f arrives and reaches `with cache_lock` (line 110)
GoldStart(r) ==
    /\ FirstFree(r)
    /\ ~Answering
    /\ started < MaxRequests
    /\ \E f \in BOOLEAN :
         /\ force' = [force EXCEPT ![r] = f]
         /\ seen' = [seen EXCEPT ![r] = lastStored.valid /\ ~f]
    /\ handler' = [handler EXCEPT ![r] = "gold"]
    /\ pc' = [pc EXCEPT ![r] = "acq1"]
    /\ started' = started + 1
    /\ UNCHANGED <<overlap, html, parsed>>
    /\ UNCHANGED <<now, file, lock, result, exc, resp, fetched, cleared, saved,
                   lastStored>>

\* GET /cache/status arrives and reaches `with cache_lock` (line 152)
StatusStart(r) ==
    /\ FirstFree(r)
    /\ ~Answering
    /\ started < MaxRequests
    /\ handler' = [handler EXCEPT ![r] = "status"]
    /\ pc' = [pc EXCEPT ![r] = "s_acq"]
    /\ started' = started + 1
    /\ UNCHANGED <<overlap, html, parsed>>
    /\ UNCHANGED <<now, file, lock, seen, force, result, exc, resp, fetched, cleared, saved, lastStored>>

\* The handlers of / and /health read and write nothing that is shared, so
\* they commute with every step of the other threads: they are taken while
\* the other threads are idle.
Quiet == \A q \in Reqs : pc[q] = "idle"

\* GET / (lines 138-144): the welcome payload, no cache access
Root(r) ==
    /\ FirstFree(r)
    /\ Quiet
    /\ handler' = [handler EXCEPT ![r] = "root"]
    /\ resp' = [resp EXCEPT ![r] = JSONResponse("welcome", NoSnap, NullStr, FALSE)]
    /\ pc' = [pc EXCEPT ![r] = "done"]
    /\ UNCHANGED <<now, file, lock, force, result, exc, started, fetched, cleared,
                   saved, lastStored, seen, overlap, html, parsed>>

\* GET /health (lines 146-148): {"status": "ok"}, no cache access
Health(r) ==
    /\ FirstFree(r)
    /\ Quiet
    /\ handler' = [handler EXCEPT ![r] = "health"]
    /\ resp' = [resp EXCEPT ![r] = JSONResponse("ok", NoSnap, NullStr, FALSE)]
    /\ pc' = [pc EXCEPT ![r] = "done"]
    /\ UNCHANGED <<now, file, lock, force, result, exc, started, fetched, cleared,
                   saved, lastStored, seen, overlap, html, parsed>>

\* AfterAcquire without the `if force:` of line 111
AfterAcquire_noforce(r) ==
    CASE pc[r] = "acq1" -> "load1"
      [] pc[r] = "acq2" -> "load2"
      [] pc[r] = "acq3" -> "save"
      [] pc[r] = "s_acq" -> "s_read"

\* AfterAcquire with clear_cache() called whatever force_refresh says
AfterAcquire_alwaysclear(r) ==
    CASE pc[r] = "acq1" -> "clear"
      [] pc[r] = "acq2" -> "load2"
      [] pc[r] = "acq3" -> "save"
      [] pc[r] = "s_acq" -> "s_read"

\* where a thread stands once `with cache_lock` has let it in
AfterAcquire(r) ==
    CASE pc[r] = "acq1" -> IF force[r] THEN "clear" ELSE "load1"
      [] pc[r] = "acq2" -> "load2"
      [] pc[r] = "acq3" -> "save"
      [] pc[r] = "s_acq" -> "s_read"

\* `with cache_lock:` (lines 110, 121, 133, 152): blocks until the lock is free
Acquire(r) ==
    /\ pc[r] \in {"acq1", "acq2", "acq3", "s_acq"}
    /\ ~Answering
    /\ lock = 0
    /\ lock' = r
    /\ pc' = [pc EXCEPT ![r] = AfterAcquire(r)]
    /\ UNCHANGED <<overlap, html, parsed>>
    /\ UNCHANGED <<now, file, handler, force, result, exc, resp, started, fetched,
                   cleared, saved, lastStored, seen>>

\* Release that leaves the lock with the thread
Release_leak(r) == lock

\* the end of a `with cache_lock:` block, by return, by raise or by running
\* off its end: the lock is free again
Release(r) == IF lock = r THEN 0 ELSE lock

\* clear_cache() of a force request (line 112), lock still held
GoldClear(r) ==
    /\ pc[r] = "clear"
    /\ ~Answering
    /\ file' = clear_cache(file)
    /\ cleared' = [cleared EXCEPT ![r] =
                      IF ~file.exists THEN "absent"
                      ELSE "removed"]
    /\ lastStored' = [lastStored EXCEPT !.intact = FALSE, !.snap = NoSnap, !.at = 0]
    /\ pc' = [pc EXCEPT ![r] = "load1"]
    /\ UNCHANGED <<overlap, html, parsed>>
    /\ UNCHANGED <<now, lock, handler, force, result, exc, resp, started, fetched,
                   saved, seen>>

\* lines 114-116: load_cache(); a usable entry is returned as "hit"; leaving
\* the with block, by return or by falling out of it, releases the lock
GoldLoad1(r) ==
    /\ pc[r] = "load1"
    /\ ~Answering
    /\ LET cached_data == load_cache(file, now)
       IN  IF cached_data.some
           THEN /\ resp' = [resp EXCEPT ![r] =
                        JSONResponse("hit", cached_data.snap, cached_data.expires_at, FALSE)]
                /\ pc' = [pc EXCEPT ![r] = "done"]
           ELSE /\ pc' = [pc EXCEPT ![r] = "fetch"]
                /\ UNCHANGED resp
    /\ seen' = [seen EXCEPT ![r] = seen[r] /\ load_cache(file, now).some]
    /\ cleared' = [cleared EXCEPT ![r] = IF @ = "no" THEN "no" ELSE "cleared"]
    /\ lock' = Release(r)
    /\ UNCHANGED <<overlap, html, parsed>>
    /\ UNCHANGED <<now, file, handler, force, result, exc, started, fetched,
                   saved, lastStored>>

\* AfterFetch with save_cache called without the `with cache_lock` of line 133
AfterFetch_nolock(raised) == IF raised THEN "acq2" ELSE "save"

\* where fetch_and_parse leaves the handler: at the `with cache_lock` of the
\* except branch (line 121) or at the one before save_cache (line 133)
AfterFetch(raised) == IF raised THEN "acq2" ELSE "acq3"

\* lines 118-120: fetch_and_parse() outside the lock; it returns the snapshot
\* or raises, and the handler goes on to line 133 or to line 121
GoldFetch(r) ==
    /\ pc[r] = "fetch"
    /\ ~Answering
    /\ \E o \in FetchOutcomes :
         LET res == fetch_and_parse(o, now)
         IN  /\ result' = [result EXCEPT ![r] = res.result]
             /\ exc' = [exc EXCEPT ![r] = res.exc]
             /\ pc' = [pc EXCEPT ![r] = AfterFetch(res.exc.raised)]
             /\ overlap' = [overlap EXCEPT ![r] = @ /\ res.exc.raised]
    /\ fetched' = [fetched EXCEPT ![r] = TRUE]
    /\ UNCHANGED <<now, file, lock, handler, force, resp, started, cleared,
                   saved, lastStored, seen, html, parsed>>

\* HardError without the isinstance test of line 129
HardError_502(e) == ErrorResponse(502)

\* the response of lines 129-131 when the fallback found nothing
HardError(e) == IF e.http THEN ErrorResponse(e.code) ELSE ErrorResponse(502)

\* lines 121-131: load_cache() again; a usable entry is returned as "stale"
\* with a warning, otherwise the exception becomes the error response
GoldFallback(r) ==
    /\ pc[r] = "load2"
    /\ ~Answering
    /\ LET cached_data == load_cache(file, now)
       IN  resp' = [resp EXCEPT ![r] =
                IF cached_data.some
                THEN JSONResponse("stale", cached_data.snap, cached_data.expires_at, TRUE)
                ELSE HardError(exc[r])]
    /\ exc' = [exc EXCEPT ![r] = NoExc]
    /\ pc' = [pc EXCEPT ![r] = "done"]
    /\ lock' = Release(r)
    /\ UNCHANGED <<overlap, html, parsed>>
    /\ UNCHANGED <<now, file, handler, force, result, started, fetched,
                   cleared, saved, lastStored, seen>>

\* lines 133-136: save_cache(result) under the lock, then the "stored" response
GoldSave(r) ==
    /\ pc[r] = "save"
    /\ ~Answering
    /\ LET sv == save_cache(result[r], now)
       IN  /\ file' = sv.file
           /\ resp' = [resp EXCEPT ![r] =
                  JSONResponse("stored", result[r], isoformat(sv.expires_at), FALSE)]
           /\ lastStored' = Stored(now, result[r], isoformat(sv.expires_at))
    /\ saved' = [saved EXCEPT ![r] = TRUE]
    /\ pc' = [pc EXCEPT ![r] = "done"]
    /\ lock' = Release(r)
    /\ result' = [result EXCEPT ![r] = NoSnap]
    /\ seen' = [q \in Reqs |-> FALSE]
    /\ overlap' = [q \in Reqs |->
                      overlap[q] \/ (q # r /\ pc[q] \in {"fetch", "acq2", "load2"})]
    /\ UNCHANGED <<now, handler, force, exc, started, fetched, cleared, html, parsed>>

\* cache_status with `now > expires_at` for the test of line 160
cache_status_gt(f, t) ==
    IF ~f.exists THEN JSONResponse("missing", NoSnap, NullStr, FALSE)
    ELSE IF ~f.parsable THEN JSONResponse("error", NoSnap, NullStr, FALSE)
    ELSE IF fromisoformat_raises(f.expires_at)
         THEN JSONResponse("error", NoSnap, NullStr, FALSE)
    ELSE IF compare_raises(Now(t), fromisoformat(f.expires_at))
         THEN JSONResponse("error", NoSnap, NullStr, FALSE)
    ELSE IF t > fromisoformat(f.expires_at).t
         THEN JSONResponse("expired", NoSnap, isoformat(fromisoformat(f.expires_at)), FALSE)
    ELSE JSONResponse("valid", NoSnap, isoformat(fromisoformat(f.expires_at)), FALSE)

\* the body of cache_status() (lines 153-172); age_remaining_sec, which is
\* expires_at - now, is left out of the response record
cache_status(f, t) ==
    IF ~f.exists THEN JSONResponse("missing", NoSnap, NullStr, FALSE)
    ELSE IF ~f.parsable THEN JSONResponse("error", NoSnap, NullStr, FALSE)
    ELSE IF fromisoformat_raises(f.expires_at)
         THEN JSONResponse("error", NoSnap, NullStr, FALSE)
    ELSE IF compare_raises(Now(t), fromisoformat(f.expires_at))
         THEN JSONResponse("error", NoSnap, NullStr, FALSE)
    ELSE IF t >= fromisoformat(f.expires_at).t
         THEN JSONResponse("expired", NoSnap, isoformat(fromisoformat(f.expires_at)), FALSE)
    ELSE JSONResponse("valid", NoSnap, isoformat(fromisoformat(f.expires_at)), FALSE)

\* GET /cache/status reads the file under the lock and answers
CacheStatus(r) ==
    /\ pc[r] = "s_read"
    /\ ~Answering
    /\ resp' = [resp EXCEPT ![r] = cache_status(file, now)]
    /\ pc' = [pc EXCEPT ![r] = "done"]
    /\ lock' = Release(r)
    /\ UNCHANGED <<overlap, html, parsed>>
    /\ UNCHANGED <<now, file, handler, force, result, exc, started, fetched,
                   cleared, saved, lastStored, seen>>

\* the response is out (the handler's locals ended with it, which the steps
\* that answer record at once); the thread goes back to the pool
Finish(r) ==
    /\ pc[r] = "done"
    /\ pc' = [pc EXCEPT ![r] = "idle"]
    /\ handler' = [handler EXCEPT ![r] = "none"]
    /\ force' = [force EXCEPT ![r] = FALSE]
    /\ result' = [result EXCEPT ![r] = NoSnap]
    /\ exc' = [exc EXCEPT ![r] = NoExc]
    /\ resp' = [resp EXCEPT ![r] = NoResp]
    /\ fetched' = [fetched EXCEPT ![r] = FALSE]
    /\ cleared' = [cleared EXCEPT ![r] = "no"]
    /\ saved' = [saved EXCEPT ![r] = FALSE]
    /\ seen' = [seen EXCEPT ![r] = FALSE]
    /\ overlap' = [overlap EXCEPT ![r] = FALSE]
    /\ UNCHANGED <<now, file, lock, started, lastStored, html, parsed>>

Next ==
    \/ Tick
    \/ \E r \in Reqs : GoldStart(r)
    \/ \E r \in Reqs : StatusStart(r)
    \/ \E r \in Reqs : Root(r)
    \/ \E r \in Reqs : Health(r)
    \/ \E r \in Reqs : Acquire(r)
    \/ \E r \in Reqs : GoldClear(r)
    \/ \E r \in Reqs : GoldLoad1(r)
    \/ \E r \in Reqs : GoldFetch(r)
    \/ \E r \in Reqs : GoldFallback(r)
    \/ \E r \in Reqs : GoldSave(r)
    \/ \E r \in Reqs : CacheStatus(r)
    \/ \E r \in Reqs : Finish(r)

Spec == Init /\ [][Next]_vars

\* ------------------------------------------------- parse_table on its own
\* the sequences over S of at most n elements
SeqsUpTo(S, n) == UNION {[1 .. k -> S] : k \in 0 .. n}

\* what first cells hold: a weight, a weight behind a space, another weight,
\* a header word before a digit, no digit
FirstTexts ==
    {<<"5", "g">>, <<" ", "5">>, <<"1", "0", "g">>,
     <<"N", "a", "r", "x", "5">>, <<"g">>}
\* what second cells hold: digits in two runs, parted by a space or by a
\* no-break space, no digit, nothing
PriceTexts == {<<"1", " ", "2">>, <<"3", "nbsp", "0">>, <<"x">>, << >>}
PriceChars == {"0", "1", " ", "nbsp", "x"}

\* the rows of the tables: without cell, with one cell, with two
TableRows ==
    {<< >>} \cup {<<f>> : f \in FirstTexts}
            \cup {<<f, p>> : f \in FirstTexts, p \in PriceTexts}
\* a page without table, the tables of at most MaxRows of these rows, and
\* the tables of one row whose price text is any text of at most MaxLen
\* characters
Tables ==
    {NoTable}
    \cup {[table |-> TRUE, trs |-> trs] : trs \in SeqsUpTo(TableRows, MaxRows)}
    \cup {[table |-> TRUE, trs |-> <<<<(<<"5", "g">>), p>>>>] :
             p \in SeqsUpTo(PriceChars, MaxLen)}

InitParse ==
    /\ InitServer
    /\ file = AbsentFile
    /\ html \in Tables
    /\ parsed = NotParsed

\* last_updated, rows = parse_table(resp.text) (line 71)
Parse ==
    /\ ~parsed.ran
    /\ parsed' = [ran |-> TRUE, found |-> parse_table(html).found,
                  rows |-> parse_table(html).rows]
    /\ UNCHANGED <<now, file, lock, pc, handler, force, result, exc, resp, started,
                   fetched, cleared, saved, lastStored, seen, overlap, html>>

NextParse == Parse

SpecParse == InitParse /\ [][NextParse]_vars

\* ------------------------------------------------------------ scheduling
\* the steps of the handler that thread r runs, once the request is accepted
Step(r) ==
    \/ Acquire(r)
    \/ GoldClear(r)
    \/ GoldLoad1(r)
    \/ GoldFetch(r)
    \/ GoldFallback(r)
    \/ GoldSave(r)
    \/ CacheStatus(r)
    \/ Finish(r)

\* Every thread of the pool gets to run: a handler that can take its next
\* step, and goes on being able to, takes it.  requests.get returns or
\* raises within REQUEST_TIMEOUT (line 66), which is GoldFetch taking its step.
FairSpec == Spec /\ \A r \in Reqs : WF_vars(Step(r))

\* ======================================================================
\* Properties
\* ======================================================================

\* request r takes its step from p
Leaves(r, p) == pc[r] = p /\ pc'[r] # p

\* the file holds a parseable entry: JSON with an expires_at that reads as a
\* timestamp of the system's clock
ParseableEntry(f) ==
    f.exists /\ f.parsable /\ f.expires_at.fmt = "iso" /\ f.expires_at.off # Naive

\* ... and the current time is before its expires_at
Usable(f, t) == ParseableEntry(f) /\ t < f.expires_at.t

\* r is between a load_cache that found nothing and its save or failure
InSection(r) ==
    handler[r] = "gold" /\ pc[r] \in {"fetch", "acq2", "load2", "acq3", "save"}

\* q performs clear_cache, load_cache or save_cache in this step
CacheOp(q) == \E p \in {"clear", "load1", "load2", "save"} : Leaves(q, p)

\* C1: while a /gold request is between the load_cache that found no usable
\* cache and its own save (or failure), no other request performs load_cache,
\* clear_cache or save_cache.
C1_ExclusiveSection ==
    [][\A r, q \in Reqs : (r # q /\ InSection(r)) => ~CacheOp(q)]_vars

\* C2: two non-force /gold requests are never both in their outbound fetch:
\* under contention one fetches and the others wait, re-check and hit.
C2_SingleFetch ==
    \A r, q \in Reqs :
        (r # q /\ ~force[r] /\ ~force[q]) => ~(pc[r] = "fetch" /\ pc[q] = "fetch")

\* the places from which the next step is a cache-file access
AccessPcs == {"clear", "load1", "load2", "save", "s_read"}

\* C3: a handler about to access the cache file (load_cache, save_cache,
\* clear_cache, the read of /cache/status) holds cache_lock, so no two
\* handlers are at a file access at the same time.
C3_AccessUnderLock ==
    /\ \A r \in Reqs : pc[r] \in AccessPcs => lock = r
    /\ \A r, q \in Reqs : (pc[r] \in AccessPcs /\ pc[q] \in AccessPcs) => r = q

\* a handler saves while another one waits for the lock
C3_Witness ==
    \E r, q \in Reqs :
        /\ pc[r] = "save" /\ lock = r
        /\ pc[q] \in {"acq1", "acq2", "acq3", "s_acq"}

\* C4: a non-force /gold request answers "hit" exactly when its first
\* load_cache meets a parseable entry with now < expires_at; the hit carries
\* the cached snapshot and expires_at, no warning, and the request neither
\* fetches nor changes the file.  No other step of a request yields "hit".
C4_HitIffUsable ==
    [][\A r \in Reqs :
        /\ (Leaves(r, "load1") /\ ~force[r]) =>
              IF Usable(file, now)
              THEN /\ resp'[r] = JSONResponse("hit", file.snap, file.expires_at, FALSE)
                   /\ pc'[r] = "done"
                   /\ file' = file
                   /\ ~fetched'[r] /\ ~saved'[r] /\ cleared'[r] = "no"
              ELSE /\ resp'[r].status # "hit"
                   /\ pc'[r] = "fetch"
        /\ (resp'[r].status = "hit" /\ resp[r].status # "hit") => pc[r] = "load1"
    ]_vars

\* a non-force request has answered "hit" from the file, without fetching
C4_Witness ==
    \E r \in Reqs :
        /\ pc[r] = "done" /\ handler[r] = "gold" /\ ~force[r]
        /\ resp[r].status = "hit" /\ resp[r].snap = file.snap
        /\ ~resp[r].warning /\ ~fetched[r]

\* C5: a force request has called clear_cache before its load_cache, which
\* therefore meets no file; it never answers "hit", and an answer it gives
\* comes after an outbound fetch.
C5_ForceNeverHit ==
    \A r \in Reqs :
        (handler[r] = "gold" /\ force[r]) =>
            /\ pc[r] \notin {"acq1", "clear"} => cleared[r] # "no"
            /\ pc[r] = "load1" => ~file.exists
            /\ resp[r].status # "hit"
            /\ pc[r] = "done" => fetched[r]

\* a force request called clear_cache, fetched and stored
C5_Witness ==
    \E r \in Reqs :
        /\ pc[r] = "done" /\ force[r] /\ cleared[r] = "cleared"
        /\ fetched[r] /\ resp[r].status = "stored"

\* C6: when the fetch has failed and the file holds a cached entry at the
\* fallback load_cache, expired or not, the answer is that snapshot with
\* status "stale" and a warning.
C6_StaleRegardlessOfTTL ==
    [][\A r \in Reqs :
        (Leaves(r, "load2") /\ ParseableEntry(file)) =>
            resp'[r] = JSONResponse("stale", file.snap, file.expires_at, TRUE)
    ]_vars

\* the HTTP status the failure of the fetch calls for: 500 when the page came
\* but holds no table, 502 for a timeout, a transport error or a non-200 page
ClaimedCode(o) == IF o.net = "response" /\ o.status = 200 THEN 500 ELSE 502

\* C7: when the fetch has failed and the fallback load_cache meets no usable
\* entry (file absent, expired or corrupt), the answer is an error without a
\* snapshot, 502 or 500 by the kind of failure, and the request does not write
\* the file.
C7_HardError ==
    [][\A r \in Reqs :
        (Leaves(r, "load2") /\ ~Usable(file, now)) =>
            /\ resp'[r].status = "error" /\ resp'[r].snap = NoSnap
            /\ \A o \in FetchOutcomes :
                 fetch_and_parse(o, now).exc = exc[r] => resp'[r].http = ClaimedCode(o)
            /\ file' = file
            /\ ~saved'[r]
    ]_vars

\* a request failed to find the table, met an expired entry and answered 500
C7_Witness ==
    \E r \in Reqs :
        /\ pc[r] = "done" /\ resp[r].http = 500 /\ fetched[r] /\ ~saved[r]
        /\ ParseableEntry(file) /\ ~Usable(file, now)

\* C8 as stated: a non-force request that arrives after a "stored" answer
\* (S, E) and loads before E answers "hit" with S and E.
C8_AlwaysHitAfterStored ==
    [][\A r \in Reqs :
        (Leaves(r, "load1") /\ seen[r] /\ now < fromisoformat(lastStored.expires_at).t) =>
            resp'[r] = JSONResponse("hit", lastStored.snap, lastStored.expires_at, FALSE)
    ]_vars

\* C8 amended: ... provided no request has called clear_cache or save_cache
\* since that save.
C8_HitWhileIntact ==
    [][\A r \in Reqs :
        (/\ Leaves(r, "load1") /\ seen[r] /\ lastStored.intact
         /\ now < fromisoformat(lastStored.expires_at).t) =>
            resp'[r] = JSONResponse("hit", lastStored.snap, lastStored.expires_at, FALSE)
    ]_vars

\* a request that arrived after the save answered "hit" with S and E, hours later
C8_Witness ==
    \E r \in Reqs :
        /\ pc[r] = "done" /\ seen[r] /\ lastStored.intact
        /\ now > lastStored.at
        /\ resp[r] = JSONResponse("hit", lastStored.snap, lastStored.expires_at, FALSE)

\* C9: after save_cache(S) at time t, and until the next write, the file is
\* exactly S with expires_at = t + TTL, which is the value save_cache
\* returned; load_cache at u returns S and that expires_at for t <= u < t + TTL
\* and nothing for u >= t + TTL.
C9_SaveLoadRoundTrip ==
    (lastStored.valid /\ lastStored.intact) =>
        /\ lastStored.expires_at = isoformat(Now(lastStored.at + CACHE_TTL))
        /\ file = JsonFile(lastStored.snap, lastStored.expires_at)
        /\ \A u \in lastStored.at .. (MaxTime + CACHE_TTL) :
             load_cache(file, u) =
                 IF u < lastStored.at + CACHE_TTL
                 THEN Some(lastStored.snap, lastStored.expires_at)
                 ELSE None

\* the clock stands exactly at the expires_at of the saved entry, and a
\* request that loaded it found nothing and went on to fetch
C9_Witness ==
    /\ lastStored.valid /\ lastStored.intact
    /\ now = lastStored.at + CACHE_TTL
    /\ \E r \in Reqs : pc[r] = "fetch" /\ ~force[r]

\* C10: clear_cache leaves the file absent whatever it held, a second
\* clear_cache changes nothing, a load_cache after it finds nothing at any
\* time; the load_cache of a force request, which follows its clear_cache
\* under the same lock, meets no file.
C10_InvalidateIdempotent ==
    /\ ~clear_cache(file).exists
    /\ clear_cache(clear_cache(file)) = clear_cache(file)
    /\ \A u \in 0 .. MaxTime : ~load_cache(clear_cache(file), u).some
    /\ \A r \in Reqs : (pc[r] = "load1" /\ force[r]) => file = AbsentFile

\* a force request has just removed the file that was there
C10_Witness ==
    \E r \in Reqs :
        /\ pc[r] = "load1" /\ force[r] /\ cleared[r] = "removed"
        /\ ~file.exists

\* the file is there but is no cache entry: it does not parse, or a required
\* field (expires_at, or a field of the snapshot) is missing or unreadable
Corrupt(f) == f.exists /\ (~ParseableEntry(f) \/ ~f.snap.complete)

\* C11: a load_cache that meets a corrupt file finds no usable cache, so the
\* request never answers "hit" or "stale" with the content of such a file.
C11_CorruptNeverSurfaces ==
    [][\A r \in Reqs :
        ((Leaves(r, "load1") \/ Leaves(r, "load2")) /\ Corrupt(file)) =>
            resp'[r].status \notin {"hit", "stale"}
    ]_vars

\* the step in which request r gets its answer
Answers(r) == pc[r] # "done" /\ pc'[r] = "done"

\* C12: the cache file changes only when save_cache writes the snapshot of a
\* fetch that succeeded, or when the clear_cache of a force request removes
\* it. A non-force /gold request that answers "hit", "stale" or an error, and
\* every request to /cache/status, /health and /, leaves the file as it was:
\* the request has neither written nor removed it, and its answering step
\* does not touch it.
C12_FileFrame ==
    [][/\ file' # file =>
            \E r \in Reqs :
                \/ /\ Leaves(r, "save")
                   /\ fetched[r] /\ result[r].complete
                   /\ file' = save_cache(result[r], now).file
                \/ /\ Leaves(r, "clear")
                   /\ force[r]
                   /\ file' = AbsentFile
       /\ \A r \in Reqs :
            (/\ Answers(r)
             /\ \/ handler'[r] \in {"status", "health", "root"}
                \/ /\ handler'[r] = "gold" /\ ~force[r]
                   /\ resp'[r].status \in {"hit", "stale", "error"})
            => /\ file' = file
               /\ ~saved'[r]
               /\ cleared'[r] = "no"
    ]_vars

\* a non-force request whose fetch failed has answered with an error, and the
\* file it could not use is still there
C12_Witness ==
    \E r \in Reqs :
        /\ pc[r] = "done" /\ handler[r] = "gold" /\ ~force[r] /\ fetched[r]
        /\ resp[r].status = "error"
        /\ file.exists

\* C13: /cache/status classifies the file as load_cache does. Of the file a
\* /cache/status request is about to read, at every time u it reports
\* "missing" exactly when there is no file, "error" exactly when
\* the file does not parse or holds no expires_at that reads as a timestamp
\* of the system's clock, "expired" exactly when u >= expires_at and "valid"
\* exactly when u < expires_at; it reports "valid" exactly when load_cache
\* finds a usable entry, which is when a non-force /gold request answers
\* "hit". The answer a /cache/status request got is the one for the file and
\* the time of its read.
C13_StatusMatchesLoad ==
    /\ (\E r \in Reqs : pc[r] = "s_read") =>
         \A u \in 0 .. MaxTime :
             LET st == cache_status(file, u).status
             IN  /\ st \in {"missing", "error", "expired", "valid"}
                 /\ (st = "missing") <=> ~file.exists
                 /\ (st = "error") <=> (file.exists /\ ~ParseableEntry(file))
                 /\ (st = "expired") <=> (ParseableEntry(file) /\ u >= file.expires_at.t)
                 /\ (st = "valid") <=> (ParseableEntry(file) /\ u < file.expires_at.t)
                 /\ (st = "valid") <=> load_cache(file, u).some
    /\ \A r \in Reqs :
         (pc[r] = "done" /\ handler[r] = "status") =>
             /\ resp[r] = cache_status(file, now)
             /\ (resp[r].status = "valid") <=> load_cache(file, now).some

\* a /cache/status request read the file at the very time of its expires_at
\* and answered "expired"
C13_Witness ==
    \E r \in Reqs :
        /\ pc[r] = "done" /\ handler[r] = "status"
        /\ resp[r].status = "expired"
        /\ ParseableEntry(file) /\ now = file.expires_at.t

\* C17: the clock only moves forward and only the handlers write the file, so
\* the load_cache of the fallback finds a usable entry only if another
\* request called save_cache after this request's first load_cache: a
\* request that answers "stale" has had such a save during its fetch, and a
\* /gold request that ran with no other one beside it never answers "stale".
C17_StaleNeedsOverlap ==
    [][\A r \in Reqs :
        (Leaves(r, "load2") /\ resp'[r].status = "stale") =>
            /\ overlap[r]
            /\ lastStored.valid /\ lastStored.intact
            /\ resp'[r].snap = lastStored.snap
    ]_vars

\* a request answered "stale" with what another request saved during its fetch
C17_Witness ==
    \E r \in Reqs :
        /\ pc[r] = "done" /\ handler[r] = "gold" /\ fetched[r]
        /\ resp[r].status = "stale"
        /\ overlap[r]

\* C18: a force request whose fetch_and_parse raised, with no save_cache of
\* another request since its clear_cache, finds no file at its fallback: it
\* answers with the error of the failed fetch and leaves the file absent,
\* also when its clear_cache removed an entry that was still usable. The
\* removed entry is neither served as "stale" nor written back.
C18_ForceFailureLosesCache ==
    [][\A r \in Reqs :
        (Leaves(r, "load2") /\ force[r] /\ ~overlap[r]) =>
            /\ cleared[r] # "no"
            /\ file = AbsentFile
            /\ file' = AbsentFile
            /\ resp'[r] = HardError(exc[r])
            /\ resp'[r].status = "error" /\ resp'[r].http \in {500, 502}
            /\ resp'[r].snap = NoSnap
    ]_vars

\* the first request saved an entry; the second, a force request, removed
\* it while it was usable (it still would be now), its fetch failed, and it
\* answered with an error; there is no file
C18_Witness ==
    \E r \in Reqs :
        /\ started = 2
        /\ pc[r] = "done" /\ handler[r] = "gold" /\ force[r] /\ fetched[r]
        /\ cleared[r] = "cleared" /\ ~overlap[r]
        /\ lastStored.valid /\ ~lastStored.intact
        /\ ~fromisoformat_raises(lastStored.expires_at)
        /\ now < fromisoformat(lastStored.expires_at).t
        /\ resp[r].status = "error"
        /\ file = AbsentFile

\* C19: from one save_cache to the next the retrieved_at of the snapshot in
\* the file never decreases: no save_cache writes a snapshot that was fetched
\* before the one of the last save_cache.
C19_RetrievedAtMonotonic ==
    [][\A r \in Reqs :
        (Leaves(r, "save") /\ lastStored.valid /\ lastStored.intact) =>
            fromisoformat(result[r].retrieved_at).t >=
                fromisoformat(lastStored.snap.retrieved_at).t
    ]_vars

\* the loop of parse_table passes over the row: it has no cell, or its first
\* cell holds a word of the header, or its first cell holds no digit
SkippedRow(tr) ==
    \/ tr = << >>
    \/ search_header(tr[1])
    \/ \A i \in 1 .. Len(tr[1]) : tr[1][i] \notin Digits

\* the pages all of whose rows the loop passes over
AllSkipped ==
    [p \in {0} \cup Pages |->
        \A i \in 1 .. Len(Html(p).trs) : SkippedRow(Html(p).trs[i])]

\* whatever requests.get meets and whenever: fetch_and_parse raises the 500
\* exactly on a 200 with a page without table, and returns a snapshot with
\* empty prices for a page all of whose rows are passed over
NotFoundOnlyWithoutTable ==
    \A o \in FetchOutcomes, t \in 0 .. MaxTime :
        LET res == fetch_and_parse(o, t)
        IN  /\ (res.exc = HTTPException(500)) <=>
                   (o.net = "response" /\ o.status = 200 /\ ~Html(o.page).table)
            /\ (/\ o.net = "response" /\ o.status = 200 /\ Html(o.page).table
                /\ AllSkipped[o.page])
               => /\ res.exc = NoExc
                  /\ res.result.complete
                  /\ prices(res.result) = << >>

\* C15: fetch_and_parse raises the 500 of the parse error exactly when the
\* source answered 200 with a page on which no table is located. A page
\* whose table has only rows that are passed over gives a snapshot with an
\* empty prices list, and the request that fetched it saves that snapshot
\* and answers "stored" with it.
C15_OnlyMissingTableIsNotFound ==
    /\ NotFoundOnlyWithoutTable
    /\ \A r \in Reqs :
         (pc[r] \in {"acq3", "save"} /\ result[r].complete) =>
             (prices(result[r]) = << >>) <=> AllSkipped[result[r].page]
    /\ \A r \in Reqs :
         (pc[r] = "done" /\ resp[r].status = "stored") =>
             /\ resp[r].http = 200
             /\ resp[r].snap.complete
             /\ file = JsonFile(resp[r].snap, resp[r].expires_at)

\* a request fetched the page whose table has no price row, saved the
\* snapshot with the empty prices list and answered "stored"
C15_Witness ==
    \E r \in Reqs :
        /\ pc[r] = "done" /\ resp[r].status = "stored"
        /\ Html(resp[r].snap.page).table
        /\ Html(resp[r].snap.page).trs # << >>
        /\ prices(resp[r].snap) = << >>
        /\ file.snap = resp[r].snap

\* the text without the whitespace at its ends
Trimmed(s) ==
    LET inner == {i \in 1 .. Len(s) : s[i] \notin Whitespace}
    IN  IF inner = {} THEN << >>
        ELSE SubSeq(s, CHOOSE i \in inner : \A j \in inner : i <= j,
                       CHOOSE i \in inner : \A j \in inner : i >= j)

\* 10 to the power n
Pow10(n) == LET p[i \in 0 .. n] == IF i = 0 THEN 1 ELSE 10 * p[i - 1] IN p[n]

\* the number written by the digits of ds: units last
Decimal(ds) ==
    LET upto[i \in 0 .. Len(ds)] ==
            IF i = 0 THEN 0
            ELSE upto[i - 1] + DigitVal(ds[Len(ds) + 1 - i]) * Pow10(i - 1)
    IN  upto[Len(ds)]

IsDigit(c) == c \in Digits

\* the integer formed by all digits of the text in their order, 0 without digit
DigitsValue(s) == Decimal(SelectSeq(s, IsDigit))

\* the number written by the first run of digits of a text that has a digit
FirstNumber(s) ==
    LET a == CHOOSE i \in 1 .. Len(s) :
                 IsDigit(s[i]) /\ \A j \in 1 .. i - 1 : ~IsDigit(s[j])
        b == CHOOSE i \in a .. Len(s) :
                 /\ \A j \in a .. i : IsDigit(s[j])
                 /\ (i = Len(s) \/ ~IsDigit(s[i + 1]))
    IN  Decimal(SubSeq(s, a, b))

PriceRow(tr) == ~SkippedRow(tr)

\* the price text of a row: the text of its second cell, "" without one
PriceText(tr) == IF Len(tr) > 1 THEN Trimmed(tr[2]) ELSE << >>

\* the one-to-one maps of 1..n onto itself
Bijections(n) == {f \in [1 .. n -> 1 .. n] : \A i, j \in 1 .. n : f[i] = f[j] => i = j}

\* C14: for every table, parse_table returns one entry for each row it does
\* not pass over, in ascending order of weight_g and, among entries of the
\* same weight_g, in the order of the rows; the price_str of an entry is the
\* price text of its row as it stands, and its price_uzs is the integer
\* formed by all digits of that text, 0 when the text has no digit or the
\* row has no second cell.
C14_ParseTableSortedPrices ==
    (parsed.ran /\ html.table) =>
        LET kept == SelectSeq(html.trs, PriceRow)
            out == parsed.rows
        IN  /\ parsed.found
            /\ Len(out) = Len(kept)
            /\ \A i \in 1 .. Len(out) - 1 : out[i].weight_g <= out[i + 1].weight_g
            /\ \A i \in 1 .. Len(out) :
                   out[i].price_uzs = DigitsValue(out[i].price_str)
            /\ \E f \in Bijections(Len(kept)) :
                   /\ \A i \in 1 .. Len(out) :
                          /\ out[i].weight_g = FirstNumber(Trimmed(kept[f[i]][1]))
                          /\ out[i].price_str = PriceText(kept[f[i]])
                          /\ out[i].price_uzs =
                                 IF Len(kept[f[i]]) > 1
                                 THEN DigitsValue(kept[f[i]][2]) ELSE 0
                   /\ \A i, j \in 1 .. Len(out) :
                          (i < j /\ out[i].weight_g = out[j].weight_g) => f[i] < f[j]

\* parse_table has returned two entries of the same weight behind a lighter
\* one that stood last in the table; of the two, the one whose price text has
\* two runs of digits stood first and comes first
C14_Witness ==
    /\ parsed.ran
    /\ Len(html.trs) = 3 /\ Len(parsed.rows) = 3
    /\ parsed.rows[1].weight_g < parsed.rows[2].weight_g
    /\ parsed.rows[2].weight_g = parsed.rows[3].weight_g
    /\ parsed.rows[2].price_str = <<"3", "nbsp", "0">>
    /\ parsed.rows[2].price_uzs = 30
    /\ parsed.rows[3].price_uzs = 0
    /\ PriceText(html.trs[1]) = parsed.rows[2].price_str
    /\ Len(html.trs[2]) = 1

\* the answers of /gold: the snapshot of the cache file as "hit", "stored"
\* or "stale" (what the snapshot of a "hit" holds is the matter of C11), or
\* one error without snapshot
GoldOutcome(r) ==
    \/ /\ resp[r].status \in {"hit", "stored", "stale"}
       /\ resp[r].http = 200
       /\ file.exists /\ resp[r].snap = file.snap
       /\ resp[r].status = "stored" => saved[r] /\ resp[r].snap.complete
       /\ resp[r].status = "stale" <=> resp[r].warning
    \/ /\ resp[r].status = "error"
       /\ resp[r].http \in {500, 502}
       /\ resp[r].snap = NoSnap
       /\ ~saved[r]

\* C16: every /gold request that was accepted gets its answer, and the answer
\* is one snapshot ("hit", "stored" or "stale") or one error. The lock is
\* held only inside the `with cache_lock` blocks: a thread that has answered,
\* or is fetching, or is waiting for the lock, or is idle, does not hold it,
\* so a request that waits for the lock gets it.
C16_GoldCompletes ==
    /\ [](\A r \in Reqs :
            /\ lock = r => pc[r] \in AccessPcs
            /\ (pc[r] = "done" /\ handler[r] = "gold") => GoldOutcome(r))
    /\ \A r \in Reqs :
         (handler[r] = "gold" /\ pc[r] = "acq1") ~> (pc[r] = "done" /\ lock # r)
    /\ \A r \in Reqs :
         (pc[r] \in {"acq1", "acq2", "acq3", "s_acq"}) ~> (lock = r)

\* a request whose fetch failed has waited for the lock of its fallback,
\* which another thread held, and has answered; the lock is free
C16_Witness ==
    \E r \in Reqs :
        /\ pc[r] = "done" /\ handler[r] = "gold" /\ fetched[r]
        /\ resp[r].status \in {"stale", "error"}
        /\ lock = 0

====
